---- MODULE Spec2Model ----
(***************************************************************************)
(* A model of util.py of SmileTrain: the lazy FASTQ parser fastq_iterator, *)
(* the id parser fastq_at_line_to_id, the Illumina 1.3 -> 1.8 quality      *)
(* translation and the sliding-window matcher mismatches.                  *)
(*                                                                         *)
(* A Python string is a sequence of one-character strings (FASTQ lines,    *)
(* ids) or of code points (quality lines, where the arithmetic on the      *)
(* characters matters).                                                    *)
(***************************************************************************)
EXTENDS Integers, Sequences, FiniteSets, TLC

VARIABLES
    lines,          \* fastq_iterator: the argument lines
    check_sigils,   \* fastq_iterator: the argument check_sigils
    check_lengths,  \* fastq_iterator: the argument check_lengths
    output_type,    \* fastq_iterator: the argument output_type
    pos,            \* number of lines the generator has taken from iter(lines)
    yielded,        \* what the consumer has received from next(), in order
    status,         \* the generator: created, suspended, raised, exhausted
    err,            \* the exception that escaped the generator, if any
    last,           \* how the most recent next() ended
    line,           \* fastq_at_line_to_id: the argument
    quality_line,   \* illumina13_quality_to_18: the argument
    seq,            \* mismatches: the argument seq
    primer,         \* mismatches: the argument primer
    w,              \* mismatches: the argument w
    pc,             \* the pure functions: idle, call, return, raise
    result          \* the pure functions: the value returned

vars == <<lines, check_sigils, check_lengths, output_type, pos, yielded, status,
          err, last, line, quality_line, seq, primer, w, pc, result>>

iterVars == <<lines, check_sigils, check_lengths, output_type, pos, yielded,
              status, err, last>>

funVars == <<line, quality_line, seq, primer, w, pc, result>>

---------------------------------------------------------------------------
(* Bounds of the model.                                                    *)

MaxLines == 8

MaxIdLen == 6

MaxQualLen == 2

MaxSeqLen == 4

MaxPrimerLen == 3

MaxW == 5

---------------------------------------------------------------------------
(* Strings.                                                                *)

\* str.rstrip() strips these (and \x0b, which no input of the model holds).
Whitespace == {" ", "\t", "\n", "\r", "\f"}

RECURSIVE rstrip(_)
rstrip(s) ==
    IF s = <<>> THEN s
    ELSE IF s[Len(s)] \in Whitespace THEN rstrip(SubSeq(s, 1, Len(s) - 1))
    ELSE s

startswith(s, c) == Len(s) >= 1 /\ s[1] = c

\* All sequences over S of length at most n.
RECURSIVE SeqsUpTo(_, _)
SeqsUpTo(S, n) ==
    IF n = 0 THEN {<<>>}
    ELSE LET shorter == SeqsUpTo(S, n - 1)
         IN  shorter \cup {Append(s, c) : s \in {t \in shorter : Len(t) = n - 1}, c \in S}

---------------------------------------------------------------------------
(* fastq_iterator                                                          *)

\* The lines an input is drawn from: a header with its newline, a separator
\* with an annotation, and a line that carries neither sigil. Trimmed they
\* have lengths 1, 2 and 1, and only the first changes when trimmed.
LineSet == { <<"@", "\n">>, <<"+", "A">>, <<"A">> }

\* The two values the docstring allows. For any other value the loop body
\* falls through both branches and yields nothing.
OutputTypes == {"list", "string"}

NoError == [kind |-> "none", msg |-> <<>>]

\* assert(...) raises AssertionError with no argument.
AssertionError == [kind |-> "AssertionError", msg |-> <<>>]

\* "sequence and quality lines are of unequal length for ID %s" % at_line
LengthMessage(at_line) ==
    <<"sequence and quality lines are of unequal length for ID ">> \o at_line

RuntimeError(msg) == [kind |-> "RuntimeError", msg |-> msg]

fastq_entry_list_to_string(entry) ==
    entry[1] \o <<"\n">> \o entry[2] \o <<"\n">> \o <<"+">> \o <<"\n">> \o entry[3]

\* A variant of MakeEntry that keeps the separator line in the entry.
MakeEntry_keep_plus(l1, l2, l3, l4) ==
    <<rstrip(l1), rstrip(l2), rstrip(l3), rstrip(l4)>>

\* The entry of one four-line group, as the loop body builds it.
MakeEntry(l1, l2, l3, l4) == <<rstrip(l1), rstrip(l2), rstrip(l4)>>

\* A variant of ProcessGroup that compares the lengths of the sequence and
\* quality lines as read, before they are trimmed.
ProcessGroup_raw_lengths(l1, l2, l3, l4, cs, cl, ot) ==
    LET at_line   == rstrip(l1)
        plus_line == rstrip(l3)
        entry     == MakeEntry(l1, l2, l3, l4)
    IN  IF cs /\ ~startswith(at_line, "@")
          THEN [kind |-> "raise", value |-> <<>>, exc |-> AssertionError]
        ELSE IF cs /\ ~startswith(plus_line, "+")
          THEN [kind |-> "raise", value |-> <<>>, exc |-> AssertionError]
        ELSE IF cl /\ Len(l2) # Len(l4)
          THEN [kind |-> "raise", value |-> <<>>,
                exc |-> RuntimeError(LengthMessage(at_line))]
        ELSE IF ot = "list"
          THEN [kind |-> "yield", value |-> entry, exc |-> NoError]
        ELSE [kind |-> "yield", value |-> fastq_entry_list_to_string(entry),
              exc |-> NoError]

\* A variant of ProcessGroup whose sigil check looks at the header only.
ProcessGroup_header_only(l1, l2, l3, l4, cs, cl, ot) ==
    LET at_line       == rstrip(l1)
        seq_line      == rstrip(l2)
        quality_line_ == rstrip(l4)
        entry         == MakeEntry(l1, l2, l3, l4)
    IN  IF cs /\ ~startswith(at_line, "@")
          THEN [kind |-> "raise", value |-> <<>>, exc |-> AssertionError]
        ELSE IF cl /\ Len(seq_line) # Len(quality_line_)
          THEN [kind |-> "raise", value |-> <<>>,
                exc |-> RuntimeError(LengthMessage(at_line))]
        ELSE IF ot = "list"
          THEN [kind |-> "yield", value |-> entry, exc |-> NoError]
        ELSE [kind |-> "yield", value |-> fastq_entry_list_to_string(entry),
              exc |-> NoError]

\* The body of the for loop on one four-line group: what next() ends with.
ProcessGroup(l1, l2, l3, l4, cs, cl, ot) ==
    LET at_line      == rstrip(l1)
        seq_line     == rstrip(l2)
        plus_line    == rstrip(l3)
        quality_line_ == rstrip(l4)
        entry        == MakeEntry(l1, l2, l3, l4)
    IN  IF cs /\ ~startswith(at_line, "@")
          THEN [kind |-> "raise", value |-> <<>>, exc |-> AssertionError]
        ELSE IF cs /\ ~startswith(plus_line, "+")
          THEN [kind |-> "raise", value |-> <<>>, exc |-> AssertionError]
        ELSE IF cl /\ Len(seq_line) # Len(quality_line_)
          THEN [kind |-> "raise", value |-> <<>>,
                exc |-> RuntimeError(LengthMessage(at_line))]
        ELSE IF ot = "list"
          THEN [kind |-> "yield", value |-> entry, exc |-> NoError]
        ELSE [kind |-> "yield", value |-> fastq_entry_list_to_string(entry),
              exc |-> NoError]

IterInit ==
    /\ lines \in SeqsUpTo(LineSet, MaxLines)
    /\ check_sigils \in BOOLEAN
    /\ check_lengths \in BOOLEAN
    /\ output_type \in OutputTypes
    /\ pos = 0
    /\ yielded = <<>>
    /\ status = "created"
    /\ err = NoError
    /\ last = "none"

IterUnused ==
    /\ lines = <<>>
    /\ check_sigils = TRUE
    /\ check_lengths = TRUE
    /\ output_type = "list"
    /\ pos = 0
    /\ yielded = <<>>
    /\ status = "unused"
    /\ err = NoError
    /\ last = "none"

FunUnused ==
    /\ line = <<>>
    /\ quality_line = <<>>
    /\ seq = <<>>
    /\ primer = <<>>
    /\ w = 0
    /\ pc = "idle"
    /\ result = <<>>

\* A variant of GenNext that validates every complete group of the input on
\* the first next(), as a parser that builds the whole list would.
GenNextEager ==
    /\ status \in {"created", "suspended"}
    /\ LET out(g) == ProcessGroup(lines[4 * g - 3], lines[4 * g - 2], lines[4 * g - 1],
                                  lines[4 * g], check_sigils, check_lengths,
                                  output_type)
           bad    == { g \in 1..(Len(lines) \div 4) : out(g).kind = "raise" }
           first  == CHOOSE g \in bad : \A h \in bad : g <= h
       IN  IF status = "created" /\ bad # {}
             THEN /\ pos' = 4 * first
                  /\ yielded' = yielded
                  /\ status' = "raised"
                  /\ err' = out(first).exc
                  /\ last' = "raise"
           ELSE IF Len(lines) - pos >= 4
             THEN /\ pos' = pos + 4
                  /\ yielded' = Append(yielded, out((pos \div 4) + 1).value)
                  /\ status' = "suspended"
                  /\ err' = err
                  /\ last' = "yield"
           ELSE /\ pos' = Len(lines)
                /\ yielded' = yielded
                /\ status' = "exhausted"
                /\ err' = err
                /\ last' = "StopIteration"
    /\ UNCHANGED <<lines, check_sigils, check_lengths, output_type>>
    /\ UNCHANGED funVars

\* A variant of GenNext that treats one to three lines left over at the end
\* of the input as a framing error.
GenNextStrict ==
    /\ status \in {"created", "suspended"}
    /\ IF Len(lines) - pos >= 4
         THEN LET o == ProcessGroup(lines[pos + 1], lines[pos + 2], lines[pos + 3],
                                    lines[pos + 4], check_sigils, check_lengths,
                                    output_type)
              IN  /\ pos' = pos + 4
                  /\ IF o.kind = "yield"
                       THEN /\ yielded' = Append(yielded, o.value)
                            /\ status' = "suspended"
                            /\ err' = err
                            /\ last' = "yield"
                       ELSE /\ yielded' = yielded
                            /\ status' = "raised"
                            /\ err' = o.exc
                            /\ last' = "raise"
         ELSE IF Len(lines) - pos > 0
           THEN /\ pos' = Len(lines)
                /\ yielded' = yielded
                /\ status' = "raised"
                /\ err' = RuntimeError(<<"incomplete fastq entry">>)
                /\ last' = "raise"
         ELSE /\ pos' = Len(lines)
              /\ yielded' = yielded
              /\ status' = "exhausted"
              /\ err' = err
              /\ last' = "StopIteration"
    /\ UNCHANGED <<lines, check_sigils, check_lengths, output_type>>
    /\ UNCHANGED funVars

\* next() on a live generator: izip takes four lines from the one iterator
\* and the loop body runs on them; when fewer than four are left izip takes
\* what is left and stops.
GenNext ==
    /\ status \in {"created", "suspended"}
    /\ IF Len(lines) - pos >= 4
         THEN LET o == ProcessGroup(lines[pos + 1], lines[pos + 2], lines[pos + 3],
                                    lines[pos + 4], check_sigils, check_lengths,
                                    output_type)
              IN  /\ pos' = pos + 4
                  /\ IF o.kind = "yield"
                       THEN /\ yielded' = Append(yielded, o.value)
                            /\ status' = "suspended"
                            /\ err' = err
                            /\ last' = "yield"
                       ELSE /\ yielded' = yielded
                            /\ status' = "raised"
                            /\ err' = o.exc
                            /\ last' = "raise"
         ELSE /\ pos' = Len(lines)
              /\ yielded' = yielded
              /\ status' = "exhausted"
              /\ err' = err
              /\ last' = "StopIteration"
    /\ UNCHANGED <<lines, check_sigils, check_lengths, output_type>>
    /\ UNCHANGED funVars

\* next() on a generator that has raised or returned: StopIteration.
GenNextClosed ==
    /\ status \in {"raised", "exhausted"}
    /\ last' = "StopIteration"
    /\ UNCHANGED <<lines, check_sigils, check_lengths, output_type, pos, yielded,
                   status, err>>
    /\ UNCHANGED funVars

Init == IterInit /\ FunUnused

Next == GenNext \/ GenNextClosed

Spec == Init /\ [][Next]_vars

---------------------------------------------------------------------------
(* fastq_at_line_to_id                                                     *)

IdChars == {"@", "/", "1", "2", "#", "\n"}

\* re.match('@(.+)/[12]', line): the ends k of a group(1) = line[2..k] with
\* which the pattern matches at the start of the line. '.' matches any
\* character but a newline, and nothing anchors the match at the end.
MatchEnds(l) ==
    { k \in 2..(Len(l) - 2) :
        /\ l[1] = "@"
        /\ \A j \in 2..k : l[j] # "\n"
        /\ l[k + 1] = "/"
        /\ l[k + 2] \in {"1", "2"} }

SetMax(S) == CHOOSE x \in S : \A y \in S : y <= x

\* "fastq at line did not parse: %s" % line
ParseMessage(l) == <<"fastq at line did not parse: ">> \o l

SetMin(S) == CHOOSE x \in S : \A y \in S : x <= y

\* A variant of fastq_at_line_to_id whose pattern is '@(.+?)/[12]': of the
\* possible matches the shortest group(1) is taken.
fastq_at_line_to_id_lazy(l) ==
    IF MatchEnds(l) = {}
      THEN [kind |-> "raise", value |-> RuntimeError(ParseMessage(l))]
    ELSE [kind |-> "return", value |-> SubSeq(l, 2, SetMin(MatchEnds(l)))]

\* '.+' is greedy: of the possible matches the longest group(1) is taken.
fastq_at_line_to_id(l) ==
    IF MatchEnds(l) = {}
      THEN [kind |-> "raise", value |-> RuntimeError(ParseMessage(l))]
    ELSE [kind |-> "return", value |-> SubSeq(l, 2, SetMax(MatchEnds(l)))]

IdInit ==
    /\ IterUnused
    /\ line \in SeqsUpTo(IdChars, MaxIdLen)
    /\ quality_line = <<>>
    /\ seq = <<>>
    /\ primer = <<>>
    /\ w = 0
    /\ pc = "call"
    /\ result = <<>>

CallId ==
    /\ status = "unused"
    /\ pc = "call"
    /\ LET r == fastq_at_line_to_id(line)
       IN  /\ pc' = r.kind
           /\ result' = r.value
    /\ UNCHANGED <<line, quality_line, seq, primer, w>>
    /\ UNCHANGED iterVars

SpecId == IdInit /\ [][CallId]_vars

---------------------------------------------------------------------------
(* illumina13_quality_to_18                                                *)

\* The code points of 'ABCDEFGHIJKLMNOPQRSTUVWXYZ[\]^_`abcdefghh'.
illumina13_codes ==
    << 65, 66, 67, 68, 69, 70, 71, 72, 73, 74, 75, 76, 77, 78, 79, 80, 81, 82,
       83, 84, 85, 86, 87, 88, 89, 90, 91, 92, 93, 94, 95, 96, 97, 98, 99, 100,
       101, 102, 103, 104, 104 >>

\* The code points of '"#$%&'()*+,-./0123456789:;<=>?@ABCDEFGHIJ'.
illumina18_codes ==
    << 34, 35, 36, 37, 38, 39, 40, 41, 42, 43, 44, 45, 46, 47, 48, 49, 50, 51,
       52, 53, 54, 55, 56, 57, 58, 59, 60, 61, 62, 63, 64, 65, 66, 67, 68, 69,
       70, 71, 72, 73, 74 >>

Bytes == 0..255

\* string.maketrans(frm, to): the identity table, then table[frm[i]] = to[i]
\* for i in order, so that a later pair of the same character replaces an
\* earlier one.
RECURSIVE maketrans_loop(_, _, _, _)
maketrans_loop(table, frm, to, i) ==
    IF i > Len(frm) THEN table
    ELSE maketrans_loop([table EXCEPT ![frm[i]] = to[i]], frm, to, i + 1)

\* A variant of maketrans in which the first pair of a character stands.
maketrans_first_wins(frm, to) ==
    [c \in Bytes |->
        IF \E i \in 1..Len(frm) : frm[i] = c
          THEN to[CHOOSE i \in 1..Len(frm) :
                      frm[i] = c /\ \A j \in 1..(i - 1) : frm[j] # c]
        ELSE c]

maketrans(frm, to) == maketrans_loop([c \in Bytes |-> c], frm, to, 1)

illumina_code_table == maketrans(illumina13_codes, illumina18_codes)

\* str.translate(table)
translate(s, table) == [i \in 1..Len(s) |-> table[s[i]]]

\* A variant of illumina13_quality_to_18 that moves every legacy symbol down
\* by the difference of the two offsets, 64 - 33.
illumina13_quality_to_18_offset(q) ==
    [i \in 1..Len(q) |-> IF q[i] \in 65..104 THEN q[i] - 31 ELSE q[i]]

illumina13_quality_to_18(q) == translate(q, illumina_code_table)

\* The characters a quality line of the model is drawn from: every character
\* of both code strings, and the ones on either side of them.
QualChars == 32..106

CodecInit ==
    /\ IterUnused
    /\ line = <<>>
    /\ quality_line \in SeqsUpTo(QualChars, MaxQualLen)
    /\ seq = <<>>
    /\ primer = <<>>
    /\ w = 0
    /\ pc = "call"
    /\ result = <<>>

CallConvert ==
    /\ status = "unused"
    /\ pc = "call"
    /\ pc' = "return"
    /\ result' = illumina13_quality_to_18(quality_line)
    /\ UNCHANGED <<line, quality_line, seq, primer, w>>
    /\ UNCHANGED iterVars

SpecCodec == CodecInit /\ [][CallConvert]_vars

---------------------------------------------------------------------------
(* mismatches                                                              *)

Bases == {"A", "C"}

Min(a, b) == IF a <= b THEN a ELSE b

\* usearch_python.primer.MatchPrefix(Seq, Primer): the number of positions
\* of the overlap of Seq and Primer at which the two differ.
MatchPrefix(s, p) ==
    Cardinality({ n \in 1..Min(Len(s), Len(p)) : s[n] # p[n] })

\* seq[i:]
SliceFrom(s, i) == IF i >= Len(s) THEN <<>> ELSE SubSeq(s, i + 1, Len(s))

\* A variant of mismatches_loop that compares with <=, so that a later offset
\* with an equal count replaces an earlier one.
RECURSIVE mismatches_loop_le(_, _, _, _, _, _)
mismatches_loop_le(s, p, win, i, I, D) ==
    IF i >= win THEN <<I, D>>
    ELSE LET d == MatchPrefix(SliceFrom(s, i), p)
         IN  IF d <= D THEN mismatches_loop_le(s, p, win, i + 1, i, d)
             ELSE mismatches_loop_le(s, p, win, i + 1, I, D)

\* for i in range(w): ..., from iteration i on, with the I and D so far.
RECURSIVE mismatches_loop(_, _, _, _, _, _)
mismatches_loop(s, p, win, i, I, D) ==
    IF i >= win THEN <<I, D>>
    ELSE LET d == MatchPrefix(SliceFrom(s, i), p)
         IN  IF d < D THEN mismatches_loop(s, p, win, i + 1, i, d)
             ELSE mismatches_loop(s, p, win, i + 1, I, D)

\* A variant of mismatches that stops the window at the end of the sequence.
mismatches_clipped(s, p, win) ==
    mismatches_loop(s, p, Min(win, Len(s)), 0, 0, Len(s))

mismatches(s, p, win) == mismatches_loop(s, p, win, 0, 0, Len(s))

MatchInit ==
    /\ IterUnused
    /\ line = <<>>
    /\ quality_line = <<>>
    /\ seq \in SeqsUpTo(Bases, MaxSeqLen)
    /\ primer \in SeqsUpTo(Bases, MaxPrimerLen)
    /\ w \in 0..MaxW
    /\ pc = "call"
    /\ result = <<>>

CallMismatches ==
    /\ status = "unused"
    /\ pc = "call"
    /\ pc' = "return"
    /\ result' = mismatches(seq, primer, w)
    /\ UNCHANGED <<line, quality_line, seq, primer, w>>
    /\ UNCHANGED iterVars

SpecMatch == MatchInit /\ [][CallMismatches]_vars

---------------------------------------------------------------------------
(* The claims about fastq_iterator. What a group of the input should give  *)
(* is stated here from the input alone, without the operators above.       *)

\* t is s without its trailing whitespace.
IsTrimOf(t, s) ==
    \E n \in 0..Len(s) :
        /\ t = SubSeq(s, 1, n)
        /\ \A j \in (n + 1)..Len(s) : s[j] \in Whitespace
        /\ n = 0 \/ s[n] \notin Whitespace

Trimmed(s) == CHOOSE t \in { SubSeq(s, 1, n) : n \in 0..Len(s) } : IsTrimOf(t, s)

\* The complete four-line groups of the input, numbered from 1.
NGroups == Len(lines) \div 4

\* Line j (1..4) of group g.
GLine(g, j) == lines[4 * (g - 1) + j]

\* The complete groups the generator has taken from the input.
GroupsTaken == pos \div 4

SigilBad(g) ==
    \/ Trimmed(GLine(g, 1)) = <<>>
    \/ Trimmed(GLine(g, 1))[1] # "@"
    \/ Trimmed(GLine(g, 3)) = <<>>
    \/ Trimmed(GLine(g, 3))[1] # "+"

LengthBad(g) == Len(Trimmed(GLine(g, 2))) # Len(Trimmed(GLine(g, 4)))

\* Group g violates a check that is enabled.
Violates(g) == (check_sigils /\ SigilBad(g)) \/ (check_lengths /\ LengthBad(g))

Header(g) == Trimmed(GLine(g, 1))

Record(g) == <<Trimmed(GLine(g, 1)), Trimmed(GLine(g, 2)), Trimmed(GLine(g, 4))>>

\* What the consumer should receive for group g.
Expected(g) ==
    IF output_type = "list" THEN Record(g)
    ELSE Trimmed(GLine(g, 1)) \o <<"\n">> \o Trimmed(GLine(g, 2)) \o <<"\n", "+", "\n">>
           \o Trimmed(GLine(g, 4))

\* The message msg ends with the header h.
Names(msg, h) ==
    /\ Len(msg) > Len(h)
    /\ SubSeq(msg, Len(msg) - Len(h) + 1, Len(msg)) = h

\* The positions of the newlines of a yielded string.
Newlines(str) == { i \in 1..Len(str) : str[i] = "\n" }

\* A yielded item holds a sequence and a quality of the same length.
EqualLengths(item) ==
    IF output_type = "list" THEN Len(item[2]) = Len(item[3])
    ELSE \E a, b, c \in Newlines(item) :
            /\ a < b /\ b < c
            /\ Newlines(item) = {a, b, c}
            /\ b - a - 1 = Len(item) - c

\* C4: for an input of 4n lines whose groups all pass the enabled checks, the
\* generator raises nothing, the records it has yielded are those of the
\* first groups in input order, each the trimmed header, sequence and quality
\* lines of its group (joined around a bare "+" when output_type is
\* 'string'), so that nothing of the separator line is in the output, and
\* when it ends it has yielded exactly n records.
C4_YieldsTrimmedTriples ==
    (Len(lines) % 4 = 0 /\ \A g \in 1..NGroups : ~Violates(g)) =>
        /\ err = NoError
        /\ status # "raised"
        /\ Len(yielded) = GroupsTaken
        /\ \A k \in 1..Len(yielded) : yielded[k] = Expected(k)
        /\ status = "exhausted" => Len(yielded) = NGroups

C4_Witness ==
    /\ status = "exhausted"
    /\ Len(lines) = 8
    /\ \A g \in 1..NGroups : ~Violates(g)
    /\ check_sigils /\ check_lengths
    /\ lines[3] = <<"+", "A">>
    /\ lines[1] # Trimmed(lines[1])
    /\ Len(yielded) = 2
    /\ yielded[1] # yielded[2]

\* C1 as stated: with check_lengths enabled every yielded record has a
\* sequence and a quality of the same length, and a group the generator has
\* taken whose trimmed sequence and quality lengths differ is not yielded and
\* raises an error whose message names the group's trimmed header.
C1_Original ==
    check_lengths =>
        /\ \A k \in 1..Len(yielded) : EqualLengths(yielded[k])
        /\ \A g \in 1..GroupsTaken :
              LengthBad(g) =>
                  /\ Len(yielded) < g
                  /\ status = "raised"
                  /\ Names(err.msg, Header(g))

\* C1, amended: with check_lengths enabled every yielded record has a
\* sequence and a quality of the same length, and a group the generator has
\* taken whose trimmed sequence and quality lengths differ is never yielded:
\* it raises a RuntimeError whose message names the group's trimmed header,
\* unless check_sigils is enabled too and the group fails a sigil assertion,
\* which is made first and raises an AssertionError with no message.
C1_LengthCheck ==
    check_lengths =>
        /\ \A k \in 1..Len(yielded) : EqualLengths(yielded[k])
        /\ \A g \in 1..GroupsTaken :
              LengthBad(g) =>
                  /\ Len(yielded) < g
                  /\ status = "raised"
                  /\ IF check_sigils /\ SigilBad(g)
                       THEN err = AssertionError
                     ELSE /\ err.kind = "RuntimeError"
                          /\ Names(err.msg, Header(g))

\* The second group fails the length check alone, after a first group whose
\* lengths agree only once trimmed, and its header is named.
C1_Witness ==
    /\ check_lengths
    /\ status = "raised"
    /\ GroupsTaken = 2
    /\ Len(yielded) = 1
    /\ Len(GLine(1, 2)) # Len(GLine(1, 4))
    /\ LengthBad(2)
    /\ ~(check_sigils /\ SigilBad(2))
    /\ Header(2) # GLine(2, 1)
    /\ err.kind = "RuntimeError"
    /\ Names(err.msg, Header(2))

\* C2 as stated: with check_sigils enabled a group the generator has taken
\* whose header does not start with '@' or whose separator does not start
\* with '+' is not yielded and raises an error that names the group's header;
\* with check_sigils disabled no group is rejected for its sigils.
C2_Original ==
    /\ check_sigils =>
          \A g \in 1..GroupsTaken :
              SigilBad(g) =>
                  /\ Len(yielded) < g
                  /\ status = "raised"
                  /\ Names(err.msg, Header(g))
    /\ ~check_sigils =>
          /\ err.kind # "AssertionError"
          /\ \A g \in 1..GroupsTaken :
                (SigilBad(g) /\ ~(check_lengths /\ LengthBad(g))) => Len(yielded) >= g

\* C2, amended: with check_sigils enabled a group the generator has taken
\* whose header does not start with '@' or whose separator does not start
\* with '+' is never yielded and raises an AssertionError that carries no
\* message, so that it does not name the header; with check_sigils disabled
\* no group is rejected for its sigils.
C2_SigilCheck ==
    /\ check_sigils =>
          \A g \in 1..GroupsTaken :
              SigilBad(g) =>
                  /\ Len(yielded) < g
                  /\ status = "raised"
                  /\ err = AssertionError
                  /\ ~Names(err.msg, Header(g))
    /\ ~check_sigils =>
          /\ err.kind # "AssertionError"
          /\ \A g \in 1..GroupsTaken :
                (SigilBad(g) /\ ~(check_lengths /\ LengthBad(g))) => Len(yielded) >= g

\* A group with a good header and a separator without '+' is rejected.
C2_Witness ==
    /\ check_sigils
    /\ status = "raised"
    /\ GroupsTaken = 2
    /\ Len(yielded) = 1
    /\ Trimmed(GLine(2, 1))[1] = "@"
    /\ Trimmed(GLine(2, 3))[1] # "+"
    /\ ~LengthBad(2)
    /\ err = AssertionError

\* The first complete group of the input that violates an enabled check, or 0.
FirstBad ==
    IF \E g \in 1..NGroups : Violates(g)
      THEN CHOOSE g \in 1..NGroups :
               Violates(g) /\ \A h \in 1..(g - 1) : ~Violates(h)
    ELSE 0

\* C8: the generator is fail-fast and lazy. What has been yielded is always
\* the records of the first groups, in order. While it is live it has taken
\* exactly the groups it has yielded and has raised nothing, whatever the
\* later groups hold. When the first violating group is the k-th, it raises
\* exactly when it takes that group, with the k-1 records before it yielded
\* and nothing after, and it never ends normally.
C8_FailFast ==
    /\ \A k \in 1..Len(yielded) : yielded[k] = Expected(k)
    /\ status \in {"created", "suspended"} =>
          /\ pos = 4 * Len(yielded)
          /\ err = NoError
    /\ FirstBad = 0 => (status # "raised" /\ err = NoError)
    /\ FirstBad > 0 =>
          /\ Len(yielded) < FirstBad
          /\ pos <= 4 * FirstBad
          /\ status = "raised" <=> pos = 4 * FirstBad
          /\ status = "raised" => (Len(yielded) = FirstBad - 1 /\ err # NoError)
          /\ status # "exhausted"

\* The second group violates a check: one record was received, the second
\* next() raised, and a third next() gave nothing more.
C8_Witness ==
    /\ FirstBad = 2
    /\ status = "raised"
    /\ last = "StopIteration"
    /\ Len(yielded) = 1
    /\ pos = 8
    /\ err # NoError

\* C9: when the number of input lines is not a multiple of four and the
\* complete groups pass the enabled checks, the generator raises nothing and
\* ends normally having yielded floor(n/4) records and taken every line: the
\* one to three lines left over are checked by nothing.
C9_TrailingLinesDiscarded ==
    (Len(lines) % 4 # 0 /\ \A g \in 1..NGroups : ~Violates(g)) =>
        /\ status # "raised"
        /\ err = NoError
        /\ status # "exhausted" => pos = 4 * Len(yielded)
        /\ status = "exhausted" => (Len(yielded) = NGroups /\ pos = Len(lines))
        /\ last = "StopIteration" => status = "exhausted"

\* Three lines are left over that would fail both checks as a group.
C9_Witness ==
    /\ Len(lines) = 7
    /\ check_sigils /\ check_lengths
    /\ status = "exhausted"
    /\ Len(yielded) = 1
    /\ pos = 7
    /\ Trimmed(lines[5])[1] # "@"
    /\ Len(Trimmed(lines[6])) # Len(Trimmed(lines[7]))
    /\ err = NoError

---------------------------------------------------------------------------
(* The claims about mismatches.                                            *)

\* The number of positions at which p and s[i:] differ, over their overlap.
Diff(s, p, i) ==
    Cardinality({ n \in 1..Len(p) : i + n <= Len(s) /\ s[i + n] # p[n] })

\* C3: for a window w >= 1, mismatches returns [I, D] with I an offset of the
\* window, D the mismatch count at I and the least count of any offset of the
\* window, and I the smallest offset with that count.
C3_MinimumAtSmallestOffset ==
    (pc = "return" /\ w >= 1) =>
        /\ result[1] \in 0..(w - 1)
        /\ result[2] = Diff(seq, primer, result[1])
        /\ \A i \in 0..(w - 1) :
              /\ result[2] <= Diff(seq, primer, i)
              /\ Diff(seq, primer, i) = result[2] => result[1] <= i

\* The minimum is not at offset 0 and a later offset, inside the sequence,
\* has the same count.
C3_Witness ==
    /\ pc = "return"
    /\ result[1] >= 1
    /\ Diff(seq, primer, 0) > result[2]
    /\ \E i \in (result[1] + 1)..(w - 1) :
          /\ i + Len(primer) <= Len(seq)
          /\ Diff(seq, primer, i) = result[2]

\* C10: when the window is larger than the sequence the count returned is 0
\* whatever the pattern, and in every case the count returned is at most
\* len(seq) - I for the offset I returned.
C10_EmptyOverlapScoresZero ==
    pc = "return" =>
        /\ w > Len(seq) => result[2] = 0
        /\ result[2] <= Len(seq) - result[1]

\* The pattern fits in the sequence and differs from it at every offset, and
\* the offset returned is the end of the sequence, where nothing overlaps.
C10_Witness ==
    /\ pc = "return"
    /\ w > Len(seq)
    /\ Len(primer) >= 1
    /\ Len(primer) <= Len(seq)
    /\ Diff(seq, primer, 0) = Len(primer)
    /\ result = <<Len(seq), 0>>

---------------------------------------------------------------------------
(* The claims about the quality translation. 'A' is 65, 'g' 103, 'h' 104,  *)
(* 'I' 73 and 'J' 74.                                                      *)

\* C5 as stated: two distinct symbols both map to 'J', and no two distinct
\* legacy symbols share any other image.
C5_Original ==
    pc = "return" =>
        /\ \E a, b \in Bytes :
              /\ a # b
              /\ illumina_code_table[a] = 74
              /\ illumina_code_table[b] = 74
        /\ \A a, b \in 65..104 :
              (a # b /\ illumina_code_table[a] = illumina_code_table[b])
                  => illumina_code_table[a] = 74

\* C5, amended: the legacy symbol 'h' is paired twice in the code strings,
\* with 'I' and then with 'J'; the later pair stands, so 'h' becomes 'J', no
\* legacy symbol becomes 'I', and over the legacy symbols 'A'..'h' the
\* translation is one-to-one: two distinct legacy symbols of a quality line
\* never become the same symbol.
C5_LegacyOneToOne ==
    pc = "return" =>
        \A i, j \in 1..Len(quality_line) :
            quality_line[i] \in 65..104 =>
                /\ result[i] # 73
                /\ quality_line[i] = 104 => result[i] = 74
                /\ (quality_line[j] \in 65..104 /\ quality_line[j] # quality_line[i])
                      => result[j] # result[i]

\* 'g' and 'h' side by side become 'H' and 'J'.
C5_Witness ==
    /\ pc = "return"
    /\ quality_line = <<103, 104>>
    /\ result = <<72, 74>>

\* C6: the translation keeps the length and the positions; a symbol from 'A'
\* to 'g' becomes the character 31 code points lower, 'h' becomes 'J', and a
\* character outside 'A'..'h' stays as it is.
C6_TranslatesCharByChar ==
    pc = "return" =>
        /\ Len(result) = Len(quality_line)
        /\ \A i \in 1..Len(quality_line) :
              LET c == quality_line[i]
              IN  /\ (c >= 65 /\ c <= 103) => result[i] = c - 31
                  /\ c = 104 => result[i] = 74
                  /\ (c < 65 \/ c > 104) => result[i] = c

\* 'h' before a character that is no legacy symbol.
C6_Witness ==
    /\ pc = "return"
    /\ Len(quality_line) = 2
    /\ quality_line[1] = 104
    /\ quality_line[2] < 65
    /\ result = <<74, quality_line[2]>>

---------------------------------------------------------------------------
(* The claims about fastq_at_line_to_id.                                   *)

\* l is '@' + X + '/1' or '@' + X + '/2' with X non-empty.
HasIdForm(l) ==
    /\ Len(l) >= 4
    /\ l[1] = "@"
    /\ l[Len(l) - 1] = "/"
    /\ l[Len(l)] \in {"1", "2"}

\* The X of a line of that form.
IdOf(l) == SubSeq(l, 2, Len(l) - 2)

NoNewline(x) == \A j \in 1..Len(x) : x[j] # "\n"

\* The lengths of the prefixes of l that have the form, with X on one line.
IdPrefixes(l) ==
    { n \in 4..Len(l) : HasIdForm(SubSeq(l, 1, n)) /\ NoNewline(IdOf(SubSeq(l, 1, n))) }

\* C7 as stated: a line of the form returns exactly its X, and a line that
\* does not have the form raises an error.
C7_Original ==
    pc # "call" =>
        IF HasIdForm(line) THEN pc = "return" /\ result = IdOf(line)
        ELSE pc = "raise"

\* C7, amended: a line '@' + X + '/1' or '@' + X + '/2' with X non-empty and
\* free of newlines returns exactly X, also when X contains '/1', '/2' or
\* '#'. The pattern is matched at the start of the line and not anchored at
\* its end: an error is raised exactly when no prefix of the line has that
\* form, and otherwise the X of the longest such prefix is returned, whatever
\* follows it.
C7_IdOfLongestPrefix ==
    pc # "call" =>
        /\ (HasIdForm(line) /\ NoNewline(IdOf(line))) =>
              (pc = "return" /\ result = IdOf(line))
        /\ pc = "raise" <=> IdPrefixes(line) = {}
        /\ pc = "return" =>
              \E n \in IdPrefixes(line) :
                  /\ \A m \in IdPrefixes(line) : m <= n
                  /\ result = IdOf(SubSeq(line, 1, n))

\* An X that itself ends in a mate number.
C7_Witness ==
    /\ pc = "return"
    /\ line = <<"@", "#", "/", "1", "/", "2">>
    /\ result = <<"#", "/", "1">>

====
